---- MODULE Spec2Model ----
(***************************************************************************)
(* chi-http-hclog: the request logging middleware (httplog.go) and its     *)
(* process-wide options (config.go).                                       *)
(*                                                                         *)
(* A logger handle is the sequence of key/value pairs it carries (what     *)
(* hclog's With was given); a log line is one call of hclog's Log: level,  *)
(* message and the pairs of the handle followed by the pairs of the call.  *)
(***************************************************************************)
EXTENDS Integers, Sequences, FiniteSets, TLC

VARIABLES
    DefaultOptions,       \* config.go: var DefaultOptions
    hclogDefaultOptions,  \* hclog.DefaultOptions, set by Configure
    cfg,                  \* the goroutine running Configure / NewLogger
    nconf,                \* number of Configure calls started
    mwLogger,             \* the handle the middleware was built with
    pc,                   \* position of the request goroutine
    chain,                \* TRUE: RequestLogger chain, FALSE: Handler alone
    req,                  \* the *http.Request in flight
    entry,                \* the RequestLoggerEntry of the request
    ww,                   \* the middleware.WrapResponseWriter of the request
    buf,                  \* the limit buffer the response body is teed into
    panicv,               \* value the downstream handler panicked with
    steps,                \* calls the downstream handler has made
    calls,                \* the LogEntrySetField(s) calls of the downstream handler
    prettyStacks,         \* stacks printed by middleware.PrintPrettyStack
    lines                 \* Log calls made on the backend for the request

vars == <<DefaultOptions, hclogDefaultOptions, cfg, nconf, mwLogger, pc, chain, req,
          entry, ww, buf, panicv, steps, calls, prettyStacks, lines>>

cfgVars == <<DefaultOptions, hclogDefaultOptions, cfg, nconf, mwLogger>>
reqVars == <<pc, chain, req, entry, ww, buf, panicv, steps, calls, prettyStacks, lines>>

-----------------------------------------------------------------------------
(* Bounds *)

MaxConfigures == 1
MaxSteps == 2
MaxStatus == 520

-----------------------------------------------------------------------------
(* Strings *)

\* strings.ToLower on the names that occur in the model
ToLower(s) ==
    CASE s = "Authorization" -> "authorization"
      [] s = "Set-Cookie"    -> "set-cookie"
      [] s = "X-Api-Key"     -> "x-api-key"
      [] s = "X-API-KEY"     -> "x-api-key"
      [] s = "Content-Type"  -> "content-type"
      [] OTHER               -> s

RECURSIVE Join(_, _)
\* strings.Join(v, sep)
Join(v, sep) ==
    IF Len(v) = 0 THEN ""
    ELSE IF Len(v) = 1 THEN v[1]
    ELSE v[1] \o sep \o Join(Tail(v), sep)

\* the orders in which a range over a Go map may yield its keys
Orders(S) ==
    {o \in [1..Cardinality(S) -> S] : \A i, j \in 1..Cardinality(S) : o[i] = o[j] => i = j}

\* len(m) of a map
MapLen(m) == Cardinality(DOMAIN m)

\* hclog.Logger.With: the handle carries the further pairs
With(logger, args) == logger \o args

\* hclog.L(): the global handle, no pairs
L == << >>

-----------------------------------------------------------------------------
(* config.go *)

RFC3339Nano == "2006-01-02T15:04:05.999999999Z07:00"

InitialOptions ==
    [Name |-> "", Level |-> "info", JSONFormat |-> FALSE, TimeFormat |-> RFC3339Nano,
     Concise |-> FALSE, Tags |-> << >>, SkipHeaders |-> << >>]

OptionFields == {"Name", "Level", "JSONFormat", "TimeFormat", "Concise", "Tags", "SkipHeaders"}

\* hclog.LevelFromString
LevelFromString(s) ==
    CASE s = "trace" -> "Trace"
      [] s = "debug" -> "Debug"
      [] s = "info"  -> "Info"
      [] s = "warn"  -> "Warn"
      [] s = "error" -> "Error"
      [] s = "off"   -> "Off"
      [] OTHER       -> "NoLevel"

\* Configure, lines 51-62: the defaults and the lower-casing of SkipHeaders
NormalizeOptions(opts) ==
    [opts EXCEPT
        !.Level = IF opts.Level = "" THEN "info" ELSE opts.Level,
        !.TimeFormat = IF opts.TimeFormat = "" THEN RFC3339Nano ELSE opts.TimeFormat,
        !.SkipHeaders = [i \in 1..Len(opts.SkipHeaders) |-> ToLower(opts.SkipHeaders[i])]]

\* Configure, lines 66-71
BackendOptions(opts) ==
    [Name |-> opts.Name, Level |-> LevelFromString(opts.Level),
     TimeFormat |-> opts.TimeFormat, JSONFormat |-> opts.JSONFormat]

\* the Options values callers configure with
OptionInputs ==
    { [Name |-> "", Level |-> "", JSONFormat |-> TRUE, TimeFormat |-> "",
       Concise |-> TRUE, Tags |-> [env |-> "dev"], SkipHeaders |-> << >>],
      [Name |-> "", Level |-> "", JSONFormat |-> FALSE, TimeFormat |-> "",
       Concise |-> FALSE, Tags |-> [env |-> "dev"], SkipHeaders |-> <<"X-API-KEY">>] }

IdleCfg == [pc |-> "idle", opts |-> InitialOptions, newLogger |-> FALSE]

\* Configure(opts) is entered (also from NewLogger): lines 51-62 run on the
\* callee's copy
ConfigureCall(o, viaNewLogger) ==
    /\ cfg.pc = "idle"
    /\ nconf < MaxConfigures
    /\ cfg' = [pc |-> "copy", opts |-> NormalizeOptions(o), newLogger |-> viaNewLogger]
    /\ nconf' = nconf + 1
    /\ UNCHANGED <<DefaultOptions, hclogDefaultOptions, mwLogger>>
    /\ UNCHANGED reqVars

\* DefaultOptions = opts (line 64) is a copy of the struct that no lock
\* guards and that is not atomic: the store of one field, in any order. A
\* field that already holds the value to store is left out: its store changes
\* nothing a reader can see.
ConfigureStore(f) ==
    /\ cfg.pc = "copy"
    /\ DefaultOptions[f] # cfg.opts[f]
    /\ DefaultOptions' = [DefaultOptions EXCEPT ![f] = cfg.opts[f]]
    /\ UNCHANGED <<cfg, hclogDefaultOptions, nconf, mwLogger>>
    /\ UNCHANGED reqVars

\* lines 66-71, then Configure returns
ConfigurePush ==
    /\ cfg.pc = "copy"
    /\ DefaultOptions = cfg.opts
    /\ hclogDefaultOptions' = BackendOptions(cfg.opts)
    /\ cfg' = IF cfg.newLogger THEN [cfg EXCEPT !.pc = "newlogger"] ELSE IdleCfg
    /\ UNCHANGED <<DefaultOptions, nconf, mwLogger>>
    /\ UNCHANGED reqVars

\* NewLogger, lines 22-26: the handle it returns, from the options it reads
NewLoggerHandle(opts) ==
    IF ~opts.Concise /\ MapLen(opts.Tags) > 0
    THEN With(L, << <<"tags", opts.Tags>> >>)
    ELSE L

\* NewLogger returns and the middleware is built with the handle
NewLoggerReturn ==
    /\ cfg.pc = "newlogger"
    /\ mwLogger' = NewLoggerHandle(DefaultOptions)
    /\ cfg' = IdleCfg
    /\ UNCHANGED <<DefaultOptions, hclogDefaultOptions, nconf>>
    /\ UNCHANGED reqVars

-----------------------------------------------------------------------------
(* httplog.go: pure functions *)

\* statusLevel with the first case written status < 0
statusLevel_ZeroIsInfo(status) ==
    IF status < 0 THEN "Warn"
    ELSE IF status < 400 THEN "Info"
    ELSE IF status >= 400 /\ status < 500 THEN "Warn"
    ELSE IF status >= 500 THEN "Error"
    ELSE "Info"

\* statusLevel: the switch takes the first case that holds
statusLevel(status) ==
    IF status <= 0 THEN "Warn"
    ELSE IF status < 400 THEN "Info"
    ELSE IF status >= 400 /\ status < 500 THEN "Warn"
    ELSE IF status >= 500 THEN "Error"
    ELSE "Info"

\* statusLabel
statusLabel(status) ==
    IF status >= 100 /\ status < 300 THEN "OK"
    ELSE IF status >= 300 /\ status < 400 THEN "Redirect"
    ELSE IF status >= 400 /\ status < 500 THEN "Client Error"
    ELSE IF status >= 500 THEN "Server Error"
    ELSE "Unknown"

\* headerLogField, lines 164-183: the pairs appended for one header k, v
headerPairs(k0, v, opts) ==
    LET k == ToLower(k0)
        value == IF Len(v) = 1 THEN v[1] ELSE "[" \o Join(v, "], [") \o "]"
        builtin == IF k = "authorization" \/ k = "cookie" \/ k = "set-cookie"
                   THEN << <<k, "***">> >> ELSE << >>
        skipped == IF \E i \in 1..Len(opts.SkipHeaders) : opts.SkipHeaders[i] = k
                   THEN << <<k, "***">> >> ELSE << >>
    IN  IF Len(v) = 0 THEN << >>
        ELSE << <<k, value>> >> \o builtin \o skipped

RECURSIVE headerLogField(_, _, _)
\* headerLogField: order is the order in which the range yields the keys
headerLogField(header, order, opts) ==
    IF Len(order) = 0 THEN << >>
    ELSE headerPairs(order[1], header[order[1]], opts)
             \o headerLogField(header, Tail(order), opts)

\* requestLogFields
requestLogFields(r, concise, order, opts) ==
    LET scheme == IF r.TLS THEN "https" ELSE "http"
        requestURL == scheme \o "://" \o r.Host \o r.RequestURI
        requestFields == << <<"requestURL", requestURL>>,
                            <<"requestMethod", r.Method>>,
                            <<"requestPath", r.Path>>,
                            <<"remoteIP", r.RemoteAddr>>,
                            <<"proto", r.Proto>> >>
        withID == IF r.reqID # "" THEN Append(requestFields, <<"requestID", r.reqID>>)
                  ELSE requestFields
        withScheme == Append(withID, <<"scheme", scheme>>)
    IN  IF concise THEN withID
        ELSE IF MapLen(r.Header) > 0
             THEN withScheme \o headerLogField(r.Header, order, opts)
             ELSE withScheme

\* requestLogger.NewLogEntry
NewLogEntry(logger, r, order, opts) ==
    [Logger |-> With(logger, requestLogFields(r, TRUE, order, opts)), msg |-> ""]

\* float64(elapsed.Nanoseconds()) / 1000000.0: whole milliseconds and the
\* nanoseconds left, so that the fraction is kept
elapsedMs(ns) == <<ns \div 1000000, ns % 1000000>>

\* fmt.Sprintf("%+v", v) of a panic value
FormatValue(v) == IF v.kind = "int" THEN ToString(v.n) ELSE v.s

\* RequestLoggerEntry.Write: the Log call it makes
EntryWrite(e, status, bytes, header, elapsed, extra, order, opts) ==
    LET msg0 == ToString(status) \o " " \o statusLabel(status)
        msg == IF e.msg # "" THEN msg0 \o " - " \o e.msg ELSE msg0
        responseLog == << <<"status", status>>, <<"bytes", bytes>>,
                          <<"elapsed", elapsedMs(elapsed)>> >>
        withBody == IF status >= 400
                    THEN Append(responseLog, <<"responseBody", extra>>)
                    ELSE responseLog
        withHeader == IF MapLen(header) > 0
                      THEN withBody \o headerLogField(header, order, opts)
                      ELSE withBody
        verbose == IF ~opts.Concise THEN withHeader ELSE responseLog
    IN  [level |-> statusLevel(status), msg |-> msg, fields |-> e.Logger \o verbose]

\* RequestLoggerEntry.Panic without the assignment of l.msg
EntryPanic_NoMsg(e, v, stack, opts) ==
    LET stacktrace == IF opts.JSONFormat THEN stack ELSE "#"
    IN  [Logger |-> With(e.Logger, << <<"stacktrace", stacktrace>>,
                                      <<"panic", FormatValue(v)>> >>),
         msg |-> e.msg]

\* RequestLoggerEntry.Panic, lines 116-123
EntryPanic(e, v, stack, opts) ==
    LET stacktrace == IF opts.JSONFormat THEN stack ELSE "#"
    IN  [Logger |-> With(e.Logger, << <<"stacktrace", stacktrace>>,
                                      <<"panic", FormatValue(v)>> >>),
         msg |-> FormatValue(v)]

-----------------------------------------------------------------------------
(* The collaborators: response writer wrapper, tee buffer, recoverer *)

LimitBufferCap == 512

\* the limit buffer keeps what fits in its capacity
limitBufferWrite(b, p) ==
    IF Len(b) + Len(p) <= LimitBufferCap THEN b \o p
    ELSE b \o SubSeq(p, 1, LimitBufferCap - Len(b))

\* WrapResponseWriter.WriteHeader: the first status code is the one kept
wwWriteHeader(w, code) ==
    IF w.wroteHeader THEN w ELSE [w EXCEPT !.code = code, !.wroteHeader = TRUE]

\* WrapResponseWriter.Write: 200 when no status was written, bytes counted
wwWrite(w, p) ==
    [wwWriteHeader(w, 200) EXCEPT !.bytes = w.bytes + Len(p)]

\* w.Header()[k] = vals
wwHeaderSet(w, k, vals) ==
    [w EXCEPT !.header = [x \in DOMAIN w.header \cup {k} |->
                             IF x = k THEN vals ELSE w.header[x]]]

NewWrapResponseWriter == [code |-> 0, wroteHeader |-> FALSE, bytes |-> 0, header |-> << >>]

-----------------------------------------------------------------------------
(* Inputs *)

NoRequest == [TLS |-> FALSE, Host |-> "", RequestURI |-> "", Method |-> "", Path |-> "",
              RemoteAddr |-> "", Proto |-> "", Header |-> << >>, reqID |-> ""]

RequestInputs ==
    { [TLS |-> FALSE, Host |-> "example.com", RequestURI |-> "/", Method |-> "GET",
       Path |-> "/", RemoteAddr |-> "10.0.0.1:4000", Proto |-> "HTTP/1.1",
       Header |-> << >>, reqID |-> ""],
      [TLS |-> TRUE, Host |-> "example.com", RequestURI |-> "/", Method |-> "GET",
       Path |-> "/", RemoteAddr |-> "10.0.0.1:4000", Proto |-> "HTTP/1.1",
       Header |-> [Authorization |-> <<"Bearer xyz">>], reqID |-> ""] }

StatusInputs == {200, 404}
BodyInputs == {"not found"}
HeaderInputs == { <<"Set-Cookie", <<"sid=1">> >>,
                  <<"X-Api-Key", <<"k1", "k2">> >>,
                  <<"Content-Type", << >> >> }
FieldInputs == { <<"user", "u1">> }
FieldsInputs == { << <<"op", "read">>, <<"user", "u2">> >> }
ContextInputs == {"request", "background"}
NoPanic == [kind |-> "none", s |-> "", n |-> 0]
PanicInputs == { [kind |-> "string", s |-> "boom", n |-> 0],
                 [kind |-> "string", s |-> "", n |-> 0],
                 [kind |-> "int", s |-> "", n |-> 42] }
ElapsedInputs == {1500000}
StackTrace == "goroutine 7 [running]:"
NoEntry == [Logger |-> << >>, msg |-> ""]

-----------------------------------------------------------------------------
(* httplog.go: the middleware *)

\* Handler's fn, lines 41-47 and the call of line 56; in the RequestLogger
\* chain middleware.RequestID has put a request id in the context
ServeHTTP(r, viaChain) ==
    /\ pc = "idle"
    /\ chain' = viaChain
    /\ req' = [r EXCEPT !.reqID = IF viaChain THEN "host/abc-000001" ELSE ""]
    /\ \E order \in Orders(DOMAIN r.Header) :
           entry' = NewLogEntry(mwLogger, req', order, DefaultOptions)
    /\ ww' = NewWrapResponseWriter
    /\ buf' = ""
    /\ pc' = "handler"
    /\ UNCHANGED <<panicv, steps, calls, prettyStacks, lines>>
    /\ UNCHANGED cfgVars

\* the downstream handler calls w.WriteHeader(code)
HandlerWriteHeader(code) ==
    /\ pc = "handler"
    /\ steps < MaxSteps
    /\ ww' = wwWriteHeader(ww, code)
    /\ steps' = steps + 1
    /\ UNCHANGED <<pc, chain, req, entry, buf, panicv, calls, prettyStacks, lines>>
    /\ UNCHANGED cfgVars

\* the downstream handler calls w.Write(p); the body is teed into buf
HandlerWrite(p) ==
    /\ pc = "handler"
    /\ steps < MaxSteps
    /\ ww' = wwWrite(ww, p)
    /\ buf' = limitBufferWrite(buf, p)
    /\ steps' = steps + 1
    /\ UNCHANGED <<pc, chain, req, entry, panicv, calls, prettyStacks, lines>>
    /\ UNCHANGED cfgVars

\* the downstream handler sets a response header
HandlerHeaderSet(k, vals) ==
    /\ pc = "handler"
    /\ steps < MaxSteps
    /\ ww' = wwHeaderSet(ww, k, vals)
    /\ steps' = steps + 1
    /\ UNCHANGED <<pc, chain, req, entry, buf, panicv, calls, prettyStacks, lines>>
    /\ UNCHANGED cfgVars

\* LogEntrySetField that drops the handle With returns
LogEntrySetField_NotStored(ctx, key, value) ==
    /\ pc = "handler"
    /\ steps < MaxSteps
    /\ calls' = Append(calls, [ctx |-> ctx, fields |-> << <<key, value>> >>])
    /\ steps' = steps + 1
    /\ UNCHANGED <<pc, chain, req, entry, ww, buf, panicv, prettyStacks, lines>>
    /\ UNCHANGED cfgVars

\* LogEntrySetField(ctx, key, value): ctx is the request's context, which
\* holds the entry, or a context without one
LogEntrySetField(ctx, key, value) ==
    /\ pc = "handler"
    /\ steps < MaxSteps
    /\ entry' = IF ctx = "request"
                THEN [entry EXCEPT !.Logger = With(entry.Logger, << <<key, value>> >>)]
                ELSE entry
    /\ calls' = Append(calls, [ctx |-> ctx, fields |-> << <<key, value>> >>])
    /\ steps' = steps + 1
    /\ UNCHANGED <<pc, chain, req, ww, buf, panicv, prettyStacks, lines>>
    /\ UNCHANGED cfgVars

\* LogEntrySetFields(ctx, fields)
LogEntrySetFields(ctx, fields) ==
    /\ pc = "handler"
    /\ steps < MaxSteps
    /\ entry' = IF ctx = "request"
                THEN [entry EXCEPT !.Logger = With(entry.Logger, fields)]
                ELSE entry
    /\ calls' = Append(calls, [ctx |-> ctx, fields |-> fields])
    /\ steps' = steps + 1
    /\ UNCHANGED <<pc, chain, req, ww, buf, panicv, prettyStacks, lines>>
    /\ UNCHANGED cfgVars

\* the downstream handler returns
HandlerReturn ==
    /\ pc = "handler"
    /\ pc' = "returned"
    /\ UNCHANGED <<chain, req, entry, ww, buf, panicv, steps, calls, prettyStacks, lines>>
    /\ UNCHANGED cfgVars

\* the downstream handler panics with v: middleware.Recoverer catches it in
\* the RequestLogger chain, otherwise it unwinds through Handler's fn
HandlerPanic(v) ==
    /\ pc = "handler"
    /\ panicv' = v
    /\ pc' = IF chain THEN "recovering" ELSE "unwinding"
    /\ UNCHANGED <<chain, req, entry, ww, buf, steps, calls, prettyStacks, lines>>
    /\ UNCHANGED cfgVars

\* middleware.Recoverer: calls the entry's Panic (lines 115-128), answers 500
\* and returns normally to Handler's fn
Recoverer ==
    /\ pc = "recovering"
    /\ entry' = EntryPanic(entry, panicv, StackTrace, DefaultOptions)
    /\ prettyStacks' = IF ~DefaultOptions.JSONFormat THEN prettyStacks + 1 ELSE prettyStacks
    /\ ww' = wwWriteHeader(ww, 500)
    /\ pc' = "returned"
    /\ UNCHANGED <<chain, req, buf, panicv, steps, calls, lines>>
    /\ UNCHANGED cfgVars

\* the flush called after next.ServeHTTP instead of deferred: a panic that
\* unwinds through Handler's fn skips it
DeferredWrite_NotDeferred ==
    /\ pc \in {"returned", "unwinding"}
    /\ \E order \in Orders(DOMAIN ww.header), elapsed \in ElapsedInputs :
           LET respBody == IF ww.code >= 400 THEN buf ELSE ""
           IN  lines' = IF pc = "returned"
                        THEN Append(lines, EntryWrite(entry, ww.code, ww.bytes, ww.header,
                                                      elapsed, respBody, order, DefaultOptions))
                        ELSE lines
    /\ pc' = "done"
    /\ UNCHANGED <<chain, req, entry, ww, buf, panicv, steps, calls, prettyStacks>>
    /\ UNCHANGED cfgVars

\* the deferred function of Handler's fn, lines 48-54
DeferredWrite ==
    /\ pc \in {"returned", "unwinding"}
    /\ \E order \in Orders(DOMAIN ww.header), elapsed \in ElapsedInputs :
           LET respBody == IF ww.code >= 400 THEN buf ELSE ""
           IN  lines' = Append(lines, EntryWrite(entry, ww.code, ww.bytes, ww.header,
                                                 elapsed, respBody, order, DefaultOptions))
    /\ pc' = "done"
    /\ UNCHANGED <<chain, req, entry, ww, buf, panicv, steps, calls, prettyStacks>>
    /\ UNCHANGED cfgVars

\* the request is over; the next one starts from fresh per-request state
RequestEnd ==
    /\ pc = "done"
    /\ pc' = "idle"
    /\ chain' = FALSE
    /\ req' = NoRequest
    /\ entry' = NoEntry
    /\ ww' = NewWrapResponseWriter
    /\ buf' = ""
    /\ panicv' = NoPanic
    /\ steps' = 0
    /\ calls' = << >>
    /\ prettyStacks' = 0
    /\ lines' = << >>
    /\ UNCHANGED cfgVars

-----------------------------------------------------------------------------

Init ==
    /\ DefaultOptions = InitialOptions
    /\ hclogDefaultOptions = BackendOptions(InitialOptions)
    /\ cfg = IdleCfg
    /\ nconf = 0
    /\ mwLogger = L
    /\ pc = "idle"
    /\ chain = FALSE
    /\ req = NoRequest
    /\ entry = NoEntry
    /\ ww = NewWrapResponseWriter
    /\ buf = ""
    /\ panicv = NoPanic
    /\ steps = 0
    /\ calls = << >>
    /\ prettyStacks = 0
    /\ lines = << >>

Next ==
    \/ \E o \in OptionInputs, viaNewLogger \in BOOLEAN : ConfigureCall(o, viaNewLogger)
    \/ ConfigureCall(DefaultOptions, TRUE)   \* NewLogger() without options, line 20
    \/ \E f \in OptionFields : ConfigureStore(f)
    \/ ConfigurePush
    \/ NewLoggerReturn
    \/ \E r \in RequestInputs, viaChain \in BOOLEAN : ServeHTTP(r, viaChain)
    \/ \E code \in StatusInputs : HandlerWriteHeader(code)
    \/ \E p \in BodyInputs : HandlerWrite(p)
    \/ \E h \in HeaderInputs : HandlerHeaderSet(h[1], h[2])
    \/ \E ctx \in ContextInputs, f \in FieldInputs : LogEntrySetField(ctx, f[1], f[2])
    \/ \E ctx \in ContextInputs, fs \in FieldsInputs : LogEntrySetFields(ctx, fs)
    \/ HandlerReturn
    \/ \E v \in PanicInputs : HandlerPanic(v)
    \/ Recoverer
    \/ DeferredWrite
    \/ RequestEnd

Spec == Init /\ [][Next]_vars

-----------------------------------------------------------------------------
(* The flush alone, on every status the response writer can report *)

InitFlush ==
    /\ DefaultOptions = InitialOptions
    /\ hclogDefaultOptions = BackendOptions(InitialOptions)
    /\ cfg = IdleCfg
    /\ nconf = MaxConfigures
    /\ mwLogger = L
    /\ pc = "returned"
    /\ chain \in BOOLEAN
    /\ req \in RequestInputs
    /\ entry = NewLogEntry(mwLogger, req, << >>, DefaultOptions)
    /\ \E code \in (0 - MaxStatus)..MaxStatus :
           ww = [code |-> code, wroteHeader |-> TRUE, bytes |-> 0, header |-> << >>]
    /\ buf = ""
    /\ panicv = NoPanic
    /\ steps = 0
    /\ calls = << >>
    /\ prettyStacks = 0
    /\ lines = << >>

NextFlush == DeferredWrite

SpecFlush == InitFlush /\ [][NextFlush]_vars

-----------------------------------------------------------------------------
(* Helpers of the properties *)

\* the line flushed for the request in flight
Line == lines[1]

HasField(fields, k, v) == \E j \in 1..Len(fields) : fields[j][1] = k /\ fields[j][2] = v
HasKey(fields, k) == \E j \in 1..Len(fields) : fields[j][1] = k
FieldSet(fields) == {fields[j] : j \in 1..Len(fields)}

\* block occurs in fields, contiguous and in order
HasBlock(fields, block) ==
    \E k \in 0..(Len(fields) - Len(block)) :
        \A i \in 1..Len(block) :
            /\ fields[k + i][1] = block[i][1]
            /\ fields[k + i][2] = block[i][2]

RECURSIVE RequestCallFields(_)
\* the fields of the calls made on the request's context, in call order
RequestCallFields(cs) ==
    IF Len(cs) = 0 THEN << >>
    ELSE (IF cs[1].ctx = "request" THEN cs[1].fields ELSE << >>)
             \o RequestCallFields(Tail(cs))

\* the keys the downstream handler enriches the entry with
EnrichmentKeys ==
    {f[1] : f \in FieldInputs} \cup {fs[i][1] : fs \in FieldsInputs, i \in 1..2}

\* the deferred function of Handler's fn runs in this step
FlushStep == pc \in {"returned", "unwinding"} /\ pc' = "done"

\* the Panic hook runs in this step
PanicHookStep == pc = "recovering" /\ pc' = "returned"

\* the table of section 4.4
TableLevel(s) ==
    CASE s <= 0 -> "Warn"
      [] s \in 1..399 -> "Info"
      [] s \in 400..499 -> "Warn"
      [] s >= 500 -> "Error"

TableLabel(s) ==
    CASE s \in 100..299 -> "OK"
      [] s \in 300..399 -> "Redirect"
      [] s \in 400..499 -> "Client Error"
      [] s >= 500 -> "Server Error"
      [] s <= 99 -> "Unknown"

\* a header name whose value is to be masked under the options
Sensitive(name, opts) ==
    \/ name \in {"authorization", "cookie", "set-cookie"}
    \/ \E i \in 1..Len(opts.SkipHeaders) : opts.SkipHeaders[i] = name

\* the options a complete Configure call leaves, or the initial ones
CompleteOptions == {InitialOptions} \cup {NormalizeOptions(o) : o \in OptionInputs}

-----------------------------------------------------------------------------
(* Properties *)

\* C1: a request's entry is flushed exactly once, after the downstream handler
\* has finished and never before, whether the handler returned, panicked and
\* was recovered, or panicked through the interceptor.
C1_OneFlushAfterHandler ==
    /\ pc \in {"idle", "handler", "recovering", "returned", "unwinding"} => lines = << >>
    /\ pc = "done" => Len(lines) = 1

C1_Witness ==
    /\ pc = "done"
    /\ panicv # NoPanic
    /\ ~chain
    /\ Len(lines) = 1

\* C2: for a header whose lower-cased name is authorization, cookie,
\* set-cookie or a SkipHeaders entry, the only value the flushed line carries
\* for that name is "***".
C2_OnlyMaskEmitted ==
    [][FlushStep =>
        \A k \in DOMAIN ww.header :
            Sensitive(ToLower(k), DefaultOptions) =>
                \A j \in 1..Len(lines'[1].fields) :
                    lines'[1].fields[j][1] = ToLower(k) => lines'[1].fields[j][2] = "***"]_vars

\* C3: when the downstream handler panicked, the flushed line is of level
\* Warn or Error.
C3_PanicIsWarnOrError ==
    pc = "done" /\ panicv # NoPanic => Line.level \in {"Warn", "Error"}

\* C4: the level and the label of the flushed line are those of the table for
\* the status, for every status.
C4_LevelAndLabelTable ==
    pc = "done" =>
        /\ Line.level = TableLevel(ww.code)
        /\ Line.msg = ToString(ww.code) \o " " \o TableLabel(ww.code)

C4_Witness ==
    /\ pc = "done"
    /\ ww.code \in 1..99
    /\ Line.level = "Info"
    /\ Line.msg = ToString(ww.code) \o " Unknown"

\* C5: an entry created while Concise is false carries the scheme field and,
\* for a request with headers, the redacted headers: authorization = "***"
\* for a request with an Authorization header.
C5_VerboseRequestFields ==
    [][(pc = "idle" /\ pc' = "handler" /\ cfg.pc = "idle" /\ ~DefaultOptions.Concise) =>
        /\ HasKey(entry'.Logger, "scheme")
        /\ "Authorization" \in DOMAIN req'.Header =>
               HasField(entry'.Logger, "authorization", "***")]_vars

\* the fields of the line the flush would write with Concise = c, everything
\* else being the same
FlushedFields(c, order, elapsed) ==
    EntryWrite(entry, ww.code, ww.bytes, ww.header, elapsed,
               IF ww.code >= 400 THEN buf ELSE "", order,
               [DefaultOptions EXCEPT !.Concise = c]).fields

\* C6: the fields flushed with Concise = true are a strict subset of the
\* fields flushed with Concise = false for the same request and response.
C6_ConciseStrictSubset ==
    pc \in {"returned", "unwinding"} =>
        \A order \in Orders(DOMAIN ww.header), elapsed \in ElapsedInputs :
            /\ FieldSet(FlushedFields(TRUE, order, elapsed))
                   \subseteq FieldSet(FlushedFields(FALSE, order, elapsed))
            /\ FieldSet(FlushedFields(TRUE, order, elapsed))
                   # FieldSet(FlushedFields(FALSE, order, elapsed))

\* C7: every read of DefaultOptions by a request (the flush, the Panic hook)
\* sees the options of one complete Configure call, or the initial ones.
C7_ReadsSeeCompleteOptions ==
    [][(FlushStep \/ PanicHookStep) => DefaultOptions \in CompleteOptions]_vars

\* C8: a line flushed while the configured Tags are not empty carries them.
C8_LinesCarryTags ==
    [][(FlushStep /\ cfg.pc = "idle" /\ MapLen(DefaultOptions.Tags) > 0) =>
        HasField(lines'[1].fields, "tags", DefaultOptions.Tags)]_vars

\* the message without a panic suffix
BaseMessage == ToString(ww.code) \o " " \o statusLabel(ww.code)

\* C9 as stated: in the RequestLogger chain a panic with v gives the message
\* "<status> <label> - <v>" and the fields stacktrace and panic; without the
\* Panic hook the message is "<status> <label>".
C9_PanicMessageAlways ==
    pc = "done" =>
        IF chain /\ panicv # NoPanic
        THEN /\ Line.msg = BaseMessage \o " - " \o FormatValue(panicv)
             /\ HasKey(Line.fields, "stacktrace")
             /\ HasField(Line.fields, "panic", FormatValue(panicv))
        ELSE Line.msg = BaseMessage

\* C9 amended: the suffix " - <v>" is there when the string form of v is not
\* empty; when it is empty, or when the Panic hook did not run, the message is
\* "<status> <label>". The fields stacktrace and panic are there whenever the
\* hook ran.
C9_PanicMessage ==
    pc = "done" =>
        IF chain /\ panicv # NoPanic
        THEN /\ Line.msg = IF FormatValue(panicv) # ""
                           THEN BaseMessage \o " - " \o FormatValue(panicv)
                           ELSE BaseMessage
             /\ HasKey(Line.fields, "stacktrace")
             /\ HasField(Line.fields, "panic", FormatValue(panicv))
        ELSE /\ Line.msg = BaseMessage
             /\ ~HasKey(Line.fields, "stacktrace")

C9_Witness ==
    /\ pc = "done"
    /\ chain
    /\ panicv = [kind |-> "string", s |-> "boom", n |-> 0]
    /\ Line.msg = "500 Server Error - boom"
    /\ HasField(Line.fields, "panic", "boom")

====
